---- MODULE Spec2Model ----
(***************************************************************************)
(* Model of the task / category / subtask domain of the To-do-list         *)
(* backend (backend/apps/tasks): the entities of models.py, the accessors  *)
(* of repositories.py, the use cases of services.py and the view sets of   *)
(* views.py, as the files stand.                                           *)
(*                                                                         *)
(* The store is the three tables.  The classes Category and Task declare   *)
(* no user field, while migration 0003 gives their tables a user column    *)
(* that is NOT NULL and has no default; the services build their           *)
(* repository without a user (XxxRepository()), and the view sets call     *)
(* XxxService(user=request.user), a keyword the constructors do not take.  *)
(* So a request through a view set ends in TypeError, a call of a service  *)
(* goes through an accessor that has no acting identity, and an accessor   *)
(* that is given a user names a field the classes do not have.             *)
(*                                                                         *)
(* A call yields Returns(value) or Raises(exception).  Rows are records    *)
(* keyed by id over the fields of the class; an optional value is None or  *)
(* Some(value).  Timestamps are readings of the clock `now`.  A read is    *)
(* the set of the ids of its rows; where the code builds a list per key,   *)
(* the rows are put in an order Meta.ordering allows.  The database is     *)
(* the engine of the settings in use and, per table, the last value its    *)
(* id sequence has given: an id is never given twice.                      *)
(***************************************************************************)
EXTENDS Integers, Sequences, FiniteSets, TLC

\* ---------------------------------------------------------------- bounds
\* The ids a caller names, and the values an id sequence may give.
MaxId == 2
MaxTime == 2

\* ------------------------------------------------------------ identities
\* request.user of an authenticated request.
Users == {"A", "B"}
\* user = None: the default of the repositories' constructors.
NoUser == "no_user"

None == <<>>
Some(x) == <<x>>

\* ---------------------------------------------------- outcomes of a call
Returns(value) == [returns |-> value]
Raises(exception) == [raises |-> exception]

TypeError == Raises("TypeError")
FieldError == Raises("FieldError")
IntegrityError == Raises("IntegrityError")

raised(outcome) == "raises" \in DOMAIN outcome

\* ------------------------------------------------------- Task.Status etc.
PENDING == "pending"
IN_PROGRESS == "in_progress"
COMPLETED == "completed"
Status == {PENDING, IN_PROGRESS, COMPLETED}

LOW == "low"
MEDIUM == "medium"
HIGH == "high"
Priority == {LOW, MEDIUM, HIGH}

Ids == 1..MaxId
Times == 1..MaxTime

VARIABLES now, categories, tasks, subtasks, database, obj, last

vars == <<now, categories, tasks, subtasks, database, obj, last>>

store == <<categories, tasks, subtasks>>

\* ------------------------------------------------------------------ text
\* A text is a sequence of one-character strings, here of ASCII letters.
Lower(c) ==
    CASE c = "A" -> "a" [] c = "B" -> "b" [] c = "C" -> "c" [] c = "D" -> "d" [] c = "E" -> "e"
      [] c = "F" -> "f" [] c = "G" -> "g" [] c = "H" -> "h" [] c = "I" -> "i" [] c = "J" -> "j"
      [] c = "K" -> "k" [] c = "L" -> "l" [] c = "M" -> "m" [] c = "N" -> "n" [] c = "O" -> "o"
      [] c = "P" -> "p" [] c = "Q" -> "q" [] c = "R" -> "r" [] c = "S" -> "s" [] c = "T" -> "t"
      [] c = "U" -> "u" [] c = "V" -> "v" [] c = "W" -> "w" [] c = "X" -> "x" [] c = "Y" -> "y"
      [] c = "Z" -> "z" [] OTHER -> c

\* SQL LIKE %q%, the case of the letters ignored (Django's icontains lookup).
icontains(text, q) == \E i \in 0..(Len(text) - Len(q)) : \A j \in 1..Len(q) : Lower(text[i + j]) = Lower(q[j])

\* -------------------------------------------------- classes and tables
\* The fields the classes declare (the primary key id is the key of a row).
CategoryFields == {"name", "icon", "color", "created_at", "updated_at"}

TaskFields == {"title", "description", "category", "status", "priority", "due_date", "completed_at", "created_at", "updated_at"}

SubtaskFields == {"task", "title", "is_completed", "completed_at", "created_at", "order"}

\* The value of a field no keyword sets; the timestamps are set by save().
\* The default icon is the folder emoji, written here by its code point.
CategoryDefaults == [name |-> <<>>, icon |-> "\\U0001F4C1", color |-> "#6b7280", created_at |-> None, updated_at |-> None]

TaskDefaults == [title |-> <<>>, description |-> <<>>, category |-> None, status |-> PENDING, priority |-> MEDIUM, due_date |-> None, completed_at |-> None, created_at |-> None, updated_at |-> None]

SubtaskDefaults == [task |-> 0, title |-> <<>>, is_completed |-> FALSE, completed_at |-> None, created_at |-> None, order |-> 0]

\* Columns of a table that are NOT NULL, have no default and are not fields
\* of its class: the user column migration 0003 adds.
CategoryNotNull == {"user"}

TaskNotNull == {"user"}

\* Model(**kwargs): a keyword that names no field of the class is a TypeError.
Model_init(fields, defaults, kwargs) == IF DOMAIN kwargs \subseteq fields THEN Returns([k \in fields |-> IF k \in DOMAIN kwargs THEN kwargs[k] ELSE defaults[k]]) ELSE TypeError

\* DATABASES['default']['ENGINE'] of the development and production settings.
Engines == {"sqlite3", "postgresql"}

\* The id of the next row of a table: one more than the last value of its id
\* sequence (AutoField: AUTOINCREMENT, serial), whatever rows were deleted.
next_id(sequence) == sequence + 1

\* The sequence after an INSERT that gave `id`: a row that is stored has
\* taken its value; a statement that fails is undone with the value it took
\* on sqlite3, while a PostgreSQL sequence does not give the value back.
sequence_after(engine, sequence, id) == IF raised(id) /\ engine = "sqlite3" THEN sequence ELSE next_id(sequence)

\* Variant: the columns the class does not declare accept NULL.
Model_insert_nullable(sequence, not_null, row) == Returns(next_id(sequence))

\* INSERT of an object of a class: the statement gives a value to the columns
\* of the fields of the class, and a NOT NULL column left out fails.
Model_insert(sequence, not_null, row) == IF not_null \subseteq DOMAIN row THEN Returns(next_id(sequence)) ELSE IntegrityError

\* A keyword of filter() or get() is resolved against the fields of the class.
resolves(fields, keyword) == keyword \in fields

\* for key, value in data.items(): setattr(obj, key, value)
setattr_all(object, data) == [k \in DOMAIN object |-> IF k \in DOMAIN data THEN data[k] ELSE object[k]]

\* Removal of one row of a table.
Without(table, id) == [i \in DOMAIN table \ {id} |-> table[i]]

\* ------------------------------------------------------- entity methods
\* Model.save() of a stored row: auto_now refreshes updated_at.
Model_save(row, t) == [row EXCEPT !.updated_at = Some(t)]

\* The assignments of mark_completed, before its save().
Task_mark_completed(task, t) == [task EXCEPT !.status = COMPLETED, !.completed_at = Some(t)]

\* The assignments of mark_pending, before its save().
Task_mark_pending(task, t) == [task EXCEPT !.status = PENDING, !.completed_at = None]

Task_is_completed(task) == task.status = COMPLETED

\* Variant: a task is overdue from the instant of its due date on.
Task_is_overdue_inclusive(task, t) == IF task.due_date # None /\ ~Task_is_completed(task) THEN t >= task.due_date[1] ELSE FALSE

Task_is_overdue(task, t) == IF task.due_date # None /\ ~Task_is_completed(task) THEN t > task.due_date[1] ELSE FALSE

\* The assignments of toggle, before its save(); Subtask has no auto_now field.
Subtask_toggle(subtask, t) == [subtask EXCEPT !.is_completed = ~subtask.is_completed, !.completed_at = IF ~subtask.is_completed THEN Some(t) ELSE None]

\* Task.category is on_delete=SET_NULL: deleting a category detaches its tasks.
Task_category_SET_NULL(T, category_id) == [i \in DOMAIN T |-> IF T[i].category = Some(category_id) THEN [T[i] EXCEPT !.category = None] ELSE T[i]]

\* Subtask.task is on_delete=CASCADE: deleting a task deletes its subtasks.
Subtask_task_CASCADE(S, task_id) == [i \in {j \in DOMAIN S : S[j].task # task_id} |-> S[i]]

\* ---------------------------------------------------------- repositories
\* objects.create(**kwargs): Model(**kwargs), then an INSERT; auto_now_add and
\* auto_now take the time of the save, and `references` tells whether the
\* foreign keys of the row name stored rows.
objects_create(table, sequence, engine, fields, defaults, not_null, kwargs, t, references) ==
    LET made == Model_init(fields, defaults, kwargs)
    IN  IF raised(made) THEN [ret |-> made, table |-> table, sequence |-> sequence]
        ELSE LET row == [k \in fields |-> IF k \in {"created_at", "updated_at"} THEN Some(t) ELSE made.returns[k]]
                 id == IF references THEN Model_insert(sequence, not_null, row) ELSE IntegrityError
             IN  IF raised(id) THEN [ret |-> id, table |-> table, sequence |-> sequence_after(engine, sequence, id)]
                 ELSE [ret |-> Returns(Some(id.returns)), table |-> table @@ (id.returns :> row), sequence |-> sequence_after(engine, sequence, id)]

\* objects.filter(<condition>, user=self.user) when self.user is set, and
\* objects.none() when it is not: `user` must be a field of the class.
\* `matching` holds the rows that satisfy <condition>.
filter_user(table, fields, u, matching) == IF u # NoUser THEN (IF resolves(fields, "user") THEN Returns({i \in matching : table[i].user = u}) ELSE FieldError) ELSE Returns({})

\* objects.get(id=id, user=self.user) or None; DoesNotExist is the one
\* exception the accessor turns into None.
get_user(table, fields, u, id) == IF u # NoUser THEN (IF resolves(fields, "user") THEN Returns(IF id \in DOMAIN table /\ table[id].user = u THEN Some(id) ELSE None) ELSE FieldError) ELSE Returns(None)

\* <queryset>.count(), and 0 without a user.
count(outcome) == IF raised(outcome) THEN outcome ELSE Returns(Cardinality(outcome.returns))

CategoryRepository_get_all(C, u) == filter_user(C, CategoryFields, u, {i \in DOMAIN C : TRUE})

CategoryRepository_get_by_id(C, u, category_id) == get_user(C, CategoryFields, u, category_id)

\* data['user'] = self.user when self.user is set, then objects.create(**data)
CategoryRepository_create(C, D, u, data, t) == objects_create(C, D.categories, D.ENGINE, CategoryFields, CategoryDefaults, CategoryNotNull, IF u # NoUser THEN [user |-> u] @@ data ELSE data, t, TRUE)

CategoryRepository_update(category, data, t) == Model_save(setattr_all(category, data), t)

\* filter(task_id=task_id, task__user=self.user): `user` is looked up on Task.
SubtaskRepository_get_by_task(S, T, u, task_id) == IF u # NoUser THEN (IF resolves(TaskFields, "user") THEN Returns({i \in DOMAIN S : S[i].task = task_id /\ S[i].task \in DOMAIN T /\ T[S[i].task].user = u}) ELSE FieldError) ELSE Returns({})

\* get(id=subtask_id, task__user=self.user)
SubtaskRepository_get_by_id(S, T, u, subtask_id) == IF u # NoUser THEN (IF resolves(TaskFields, "user") THEN Returns(IF subtask_id \in DOMAIN S /\ S[subtask_id].task \in DOMAIN T /\ T[S[subtask_id].task].user = u THEN Some(subtask_id) ELSE None) ELSE FieldError) ELSE Returns(None)

\* objects.create(task_id=task_id, **data): self.user is not consulted, and
\* the task must be a stored row.
SubtaskRepository_create(S, T, D, task_id, data, t) == objects_create(S, D.subtasks, D.ENGINE, SubtaskFields, SubtaskDefaults, {}, [task |-> task_id] @@ data, t, task_id \in DOMAIN T)

\* Subtask has no auto_now field.
SubtaskRepository_update(subtask, data) == setattr_all(subtask, data)

TaskRepository_get_all(T, u) == filter_user(T, TaskFields, u, {i \in DOMAIN T : TRUE})

TaskRepository_get_by_id(T, u, task_id) == get_user(T, TaskFields, u, task_id)

TaskRepository_get_by_status(T, u, status) == filter_user(T, TaskFields, u, {i \in DOMAIN T : T[i].status = status})

TaskRepository_get_by_priority(T, u, priority) == filter_user(T, TaskFields, u, {i \in DOMAIN T : T[i].priority = priority})

TaskRepository_get_by_category(T, u, category_id) == filter_user(T, TaskFields, u, {i \in DOMAIN T : T[i].category = Some(category_id)})

\* due_date__gte / due_date__lte never match a NULL due_date.
TaskRepository_get_by_date_range(T, u, start_date, end_date) == filter_user(T, TaskFields, u, {i \in DOMAIN T : T[i].due_date # None /\ T[i].due_date[1] >= start_date /\ T[i].due_date[1] <= end_date})

TaskRepository_get_pending(T, u) == filter_user(T, TaskFields, u, {i \in DOMAIN T : T[i].status = PENDING})

TaskRepository_get_completed(T, u) == filter_user(T, TaskFields, u, {i \in DOMAIN T : T[i].status = COMPLETED})

\* data['user'] = self.user when self.user is set, then objects.create(**data);
\* a category given in data must be a stored row.
TaskRepository_create(T, C, D, u, data, t) == objects_create(T, D.tasks, D.ENGINE, TaskFields, TaskDefaults, TaskNotNull, IF u # NoUser THEN [user |-> u] @@ data ELSE data, t, IF "category" \in DOMAIN data THEN (data.category = None \/ data.category[1] \in DOMAIN C) ELSE TRUE)

TaskRepository_update(task, data, t) == Model_save(setattr_all(task, data), t)

\* Model.delete() of an object without primary key: AssertionError up to
\* Django 3.2, ValueError from Django 4.0 on.
Model_delete_unsaved == {Raises("AssertionError"), Raises("ValueError")}

\* TaskRepository.delete(task): task.delete() and True; self.user is not
\* consulted.  The statement removes the row with the primary key of the
\* object, when there is one, and the subtasks of that task.
TaskRepository_delete(T, S, task, unsaved) ==
    IF task.pk = None THEN [ret |-> unsaved, T |-> T, S |-> S]
    ELSE [ret |-> Returns(TRUE), T |-> Without(T, task.pk[1]), S |-> Subtask_task_CASCADE(S, task.pk[1])]

TaskRepository_search(T, u, query) == filter_user(T, TaskFields, u, {i \in DOMAIN T : icontains(T[i].title, query) \/ icontains(T[i].description, query)})

TaskRepository_count(T, u) == IF u # NoUser THEN count(filter_user(T, TaskFields, u, {i \in DOMAIN T : TRUE})) ELSE Returns(0)

TaskRepository_count_by_status(T, u, status) == IF u # NoUser THEN count(filter_user(T, TaskFields, u, {i \in DOMAIN T : T[i].status = status})) ELSE Returns(0)

TaskRepository_count_by_category(T, u, category_id) == IF u # NoUser THEN count(filter_user(T, TaskFields, u, {i \in DOMAIN T : T[i].category = Some(category_id)})) ELSE Returns(0)

\* ------------------------------------------------------------- services
\* self.repository = XxxRepository(): the constructors of the three services
\* take no user and give none to their repository.
Service_user == NoUser

\* What a use case leaves behind: its outcome, the three tables and the
\* database's sequences.
Outcome(ret, C, T, S, D) == [ret |-> ret, C |-> C, T |-> T, S |-> S, D |-> D]

CategoryService_get_all_categories(C) == CategoryRepository_get_all(C, Service_user)

CategoryService_get_category_by_id(C, category_id) == CategoryRepository_get_by_id(C, Service_user, category_id)

CategoryService_create_category(C, T, S, D, data, t) ==
    LET made == CategoryRepository_create(C, D, Service_user, data, t)
    IN  Outcome(made.ret, made.table, T, S, [D EXCEPT !.categories = made.sequence])

CategoryService_update_category(C, T, S, D, category_id, data, t) ==
    LET category == CategoryRepository_get_by_id(C, Service_user, category_id)
    IN  IF raised(category) THEN Outcome(category, C, T, S, D)
        ELSE IF category.returns = None THEN Outcome(Returns(None), C, T, S, D)
        ELSE Outcome(category, [C EXCEPT ![category_id] = CategoryRepository_update(C[category_id], data, t)], T, S, D)

CategoryService_delete_category(C, T, S, D, category_id) ==
    LET category == CategoryRepository_get_by_id(C, Service_user, category_id)
    IN  IF raised(category) THEN Outcome(category, C, T, S, D)
        ELSE IF category.returns = None THEN Outcome(Returns(FALSE), C, T, S, D)
        ELSE Outcome(Returns(TRUE), Without(C, category_id), Task_category_SET_NULL(T, category_id), S, D)

SubtaskService_get_subtasks_by_task(S, T, task_id) == SubtaskRepository_get_by_task(S, T, Service_user, task_id)

SubtaskService_create_subtask(C, T, S, D, task_id, data, t) ==
    LET made == SubtaskRepository_create(S, T, D, task_id, data, t)
    IN  Outcome(made.ret, C, T, made.table, [D EXCEPT !.subtasks = made.sequence])

SubtaskService_update_subtask(C, T, S, D, subtask_id, data) ==
    LET subtask == SubtaskRepository_get_by_id(S, T, Service_user, subtask_id)
    IN  IF raised(subtask) THEN Outcome(subtask, C, T, S, D)
        ELSE IF subtask.returns = None THEN Outcome(Returns(None), C, T, S, D)
        ELSE Outcome(subtask, C, T, [S EXCEPT ![subtask_id] = SubtaskRepository_update(S[subtask_id], data)], D)

SubtaskService_toggle_subtask(C, T, S, D, subtask_id, t) ==
    LET subtask == SubtaskRepository_get_by_id(S, T, Service_user, subtask_id)
    IN  IF raised(subtask) THEN Outcome(subtask, C, T, S, D)
        ELSE IF subtask.returns = None THEN Outcome(Returns(None), C, T, S, D)
        ELSE Outcome(subtask, C, T, [S EXCEPT ![subtask_id] = Subtask_toggle(S[subtask_id], t)], D)

SubtaskService_delete_subtask(C, T, S, D, subtask_id) ==
    LET subtask == SubtaskRepository_get_by_id(S, T, Service_user, subtask_id)
    IN  IF raised(subtask) THEN Outcome(subtask, C, T, S, D)
        ELSE IF subtask.returns = None THEN Outcome(Returns(FALSE), C, T, S, D)
        ELSE Outcome(Returns(TRUE), C, T, Without(S, subtask_id), D)

\* The truth value of a value in an `if`: the empty string, 0, None, the
\* empty text and False are false.
bool(value) == ToString(value) \notin {ToString(""), ToString(0), ToString(<<>>), ToString(FALSE)}

\* A filter is applied when its key is present and its value is truthy
\* (`if x := filters.get(k)`), whichever the key.
truthy(filters, k) == k \in DOMAIN filters /\ bool(filters[k])

\* qs.filter(title__icontains) | qs.filter(description__icontains): each leg keeps
\* the filters already applied to qs, so the OR is taken inside them.
TaskService_get_all_tasks(T, filters) ==
    LET queryset == TaskRepository_get_all(T, Service_user)
    IN  IF raised(queryset) THEN queryset
        ELSE LET q0 == queryset.returns
                 q1 == IF truthy(filters, "status") THEN {i \in q0 : T[i].status = filters.status} ELSE q0
                 q2 == IF truthy(filters, "priority") THEN {i \in q1 : T[i].priority = filters.priority} ELSE q1
                 q3 == IF truthy(filters, "category") THEN {i \in q2 : T[i].category = Some(filters.category)} ELSE q2
             IN  Returns(IF truthy(filters, "search")
                         THEN {i \in q3 : icontains(T[i].title, filters.search)} \cup {i \in q3 : icontains(T[i].description, filters.search)}
                         ELSE q3)

TaskService_get_task_by_id(T, task_id) == TaskRepository_get_by_id(T, Service_user, task_id)

TaskService_get_tasks_by_date_range(T, start_date, end_date) == TaskRepository_get_by_date_range(T, Service_user, start_date, end_date)

\* Each count is a query of its own; the first that raises ends the call.
TaskService_get_task_statistics(T) ==
    LET total == TaskRepository_count(T, Service_user)
        pending == TaskRepository_count_by_status(T, Service_user, PENDING)
        in_progress == TaskRepository_count_by_status(T, Service_user, IN_PROGRESS)
        completed == TaskRepository_count_by_status(T, Service_user, COMPLETED)
    IN  IF raised(total) THEN total
        ELSE IF raised(pending) THEN pending
        ELSE IF raised(in_progress) THEN in_progress
        ELSE IF raised(completed) THEN completed
        ELSE Returns([total |-> total.returns, pending |-> pending.returns, in_progress |-> in_progress.returns, completed |-> completed.returns])

\* ------------------------------------------------------------- calendar
\* An instant is a whole number of half seconds since 2023-01-01T00:00:00Z;
\* a stored DateTimeField is read back in UTC.
CalendarYears == 2023..2024

\* calendar.isleap
isleap(year) == year % 4 = 0 /\ (year % 100 # 0 \/ year % 400 = 0)

\* calendar.monthrange(year, month)[1]: the number of days of the month.
monthrange(year, month) == <<31, 28, 31, 30, 31, 30, 31, 31, 30, 31, 30, 31>>[month] + (IF month = 2 /\ isleap(year) THEN 1 ELSE 0)

RECURSIVE days_before_year(_)
days_before_year(year) == IF year <= 2023 THEN 0 ELSE days_before_year(year - 1) + (IF isleap(year - 1) THEN 366 ELSE 365)

RECURSIVE days_before_month(_, _)
days_before_month(year, month) == IF month <= 1 THEN 0 ELSE days_before_month(year, month - 1) + monthrange(year, month - 1)

\* datetime(year, month, day, hour, minute, second, tzinfo=utc), with the
\* microseconds as a number of half seconds.
datetime(year, month, day, hour, minute, second, half) == ((days_before_year(year) + days_before_month(year, month) + (day - 1)) * 86400 + hour * 3600 + minute * 60 + second) * 2 + half

\* The year, and the day within it (from 0), of an instant.
RECURSIVE year_of(_, _)
year_of(days, year) == IF days < (IF isleap(year) THEN 366 ELSE 365) THEN <<year, days>> ELSE year_of(days - (IF isleap(year) THEN 366 ELSE 365), year + 1)

\* The month, and the day within it (from 0), of a day of a year.
RECURSIVE month_of(_, _, _)
month_of(days, year, month) == IF days < monthrange(year, month) THEN <<month, days>> ELSE month_of(days - monthrange(year, month), year, month + 1)

zero_pad(n) == IF n < 10 THEN "0" \o ToString(n) ELSE ToString(n)

\* '%Y-%m-%d' of a year, month and day.
isoformat(year, month, day) == ToString(year) \o "-" \o zero_pad(month) \o "-" \o zero_pad(day)

\* due_date.strftime('%Y-%m-%d')
strftime_Ymd(instant) ==
    LET yd == year_of(instant \div (2 * 86400), 2023)
        md == month_of(yd[2], yd[1], 1)
    IN  isoformat(yd[1], md[1], md[2] + 1)

\* Meta.ordering = ['-created_at']: the orders the database may give the
\* rows of a read, newest first; no order is declared among rows created at
\* the same instant.
order_by_created_at_desc(T, ids) ==
    {order \in [1..Cardinality(ids) -> ids] :
        /\ \A i, j \in DOMAIN order : i # j => order[i] # order[j]
        /\ \A i, j \in DOMAIN order : i < j => T[order[i]].created_at[1] >= T[order[j]].created_at[1]}

\* The tasks of the month, grouped in a dict by the date of their due_date,
\* each list in the order of the read: one outcome for each order the read
\* may have.
TaskService_get_tasks_for_month(T, year, month) ==
    LET first_day == datetime(year, month, 1, 0, 0, 0, 0)
        last_day == datetime(year, month, monthrange(year, month), 23, 59, 59, 0)
        tasks_in_range == TaskRepository_get_by_date_range(T, Service_user, first_day, last_day)
    IN  IF raised(tasks_in_range) THEN {tasks_in_range}
        ELSE LET found == {i \in tasks_in_range.returns : T[i].due_date # None}
                 date_key(i) == strftime_Ymd(T[i].due_date[1])
             IN  {Returns([k \in {date_key(i) : i \in found} |-> SelectSeq(order, LAMBDA i : date_key(i) = k)]) : order \in order_by_created_at_desc(T, found)}

\* --------------------------------------------- services: the task writes
TaskService_create_task(C, T, S, D, data, t) ==
    LET made == TaskRepository_create(T, C, D, Service_user, data, t)
    IN  Outcome(made.ret, C, made.table, S, [D EXCEPT !.tasks = made.sequence])

TaskService_update_task(C, T, S, D, task_id, data, t) ==
    LET task == TaskRepository_get_by_id(T, Service_user, task_id)
    IN  IF raised(task) THEN Outcome(task, C, T, S, D)
        ELSE IF task.returns = None THEN Outcome(Returns(None), C, T, S, D)
        ELSE Outcome(task, C, [T EXCEPT ![task_id] = TaskRepository_update(T[task_id], data, t)], S, D)

\* repository.delete_by_id: look the task up, delete it and its subtasks.
TaskService_delete_task(C, T, S, D, task_id) ==
    LET task == TaskRepository_get_by_id(T, Service_user, task_id)
    IN  IF raised(task) THEN Outcome(task, C, T, S, D)
        ELSE IF task.returns = None THEN Outcome(Returns(FALSE), C, T, S, D)
        ELSE Outcome(Returns(TRUE), C, Without(T, task_id), Subtask_task_CASCADE(S, task_id), D)

TaskService_mark_task_completed(C, T, S, D, task_id, t) ==
    LET task == TaskRepository_get_by_id(T, Service_user, task_id)
    IN  IF raised(task) THEN Outcome(task, C, T, S, D)
        ELSE IF task.returns = None THEN Outcome(Returns(None), C, T, S, D)
        ELSE Outcome(task, C, [T EXCEPT ![task_id] = Model_save(Task_mark_completed(T[task_id], t), t)], S, D)

TaskService_mark_task_pending(C, T, S, D, task_id, t) ==
    LET task == TaskRepository_get_by_id(T, Service_user, task_id)
    IN  IF raised(task) THEN Outcome(task, C, T, S, D)
        ELSE IF task.returns = None THEN Outcome(Returns(None), C, T, S, D)
        ELSE Outcome(task, C, [T EXCEPT ![task_id] = Model_save(Task_mark_pending(T[task_id], t), t)], S, D)

TaskService_toggle_task_status(C, T, S, D, task_id, t) ==
    LET task == TaskRepository_get_by_id(T, Service_user, task_id)
    IN  IF raised(task) THEN Outcome(task, C, T, S, D)
        ELSE IF task.returns = None THEN Outcome(Returns(None), C, T, S, D)
        ELSE Outcome(task, C, [T EXCEPT ![task_id] = Model_save(IF Task_is_completed(T[task_id]) THEN Task_mark_pending(T[task_id], t) ELSE Task_mark_completed(T[task_id], t), t)], S, D)

\* ---------------------------------------------------------------- views
\* The keywords the constructors of the services take: def __init__(self).
Service_init_keywords == {}

\* get_service: XxxService(user=request.user)
get_service(u) == IF "user" \in Service_init_keywords THEN Returns(u) ELSE TypeError

\* A view method: the payload, where the method takes one, is validated first
\* (400 when invalid); then the service is built and the use case called,
\* whose outcome stands for the response made of it.
view(u, valid, C, T, S, D, use_case) ==
    IF ~valid THEN Outcome(Returns("400"), C, T, S, D)
    ELSE IF raised(get_service(u)) THEN Outcome(get_service(u), C, T, S, D)
    ELSE use_case

\* is_valid() of the serializers: a CharField that is required (not partial)
\* must be given and not blank, and a category must be a stored category.
valid_text(data, k, partial) == IF k \in DOMAIN data THEN data[k] # <<>> ELSE partial

valid_category(C, data) == IF "category" \in DOMAIN data THEN (data.category = None \/ data.category[1] \in DOMAIN C) ELSE TRUE

\* ---------------------------------------------------------------- state
\* `last` is the step just taken: the operation, how it was called ("view"
\* with request.user, or "service"), its arguments and its outcome.
Call(op, via, u, id, data, ret) == [op |-> op, via |-> via, u |-> u, id |-> id, data |-> data, ret |-> ret]

NoData == <<>>

\* The sequences of a database in which no row was ever stored.
Database(engine) == [ENGINE |-> engine, categories |-> 0, tasks |-> 0, subtasks |-> 0]

\* A request of an authenticated user to a view set, or a call of a service.
Callers == {<<"view", u>> : u \in Users} \cup {<<"service", NoUser>>}

Init ==
    /\ now = 1
    /\ categories = <<>>
    /\ tasks = <<>>
    /\ subtasks = <<>>
    /\ database \in {Database(engine) : engine \in Engines}
    /\ obj = None
    /\ last = Call("init", "service", NoUser, 0, NoData, Returns(None))

\* timezone.now() advances between calls.
Tick ==
    /\ now < MaxTime
    /\ now' = now + 1
    /\ last' = Call("Tick", "service", NoUser, 0, NoData, Returns(None))
    /\ UNCHANGED <<categories, tasks, subtasks, database, obj>>

\* One call: through the view when it is a request, and the use case itself
\* when the service is called.
step(op, caller, id, data, valid, use_case) ==
    LET out == IF caller[1] = "view" THEN view(caller[2], valid, categories, tasks, subtasks, database, use_case) ELSE use_case
    IN  /\ categories' = out.C
        /\ tasks' = out.T
        /\ subtasks' = out.S
        /\ database' = out.D
        /\ last' = Call(op, caller[1], caller[2], id, data, out.ret)
        /\ UNCHANGED <<now, obj>>

\* A use case that reads.
reads(outcome) == Outcome(outcome, categories, tasks, subtasks, database)

\* --------------------------------------------------------- CategoryService
get_all_categories(caller) == step("get_all_categories", caller, 0, NoData, TRUE, reads(CategoryService_get_all_categories(categories)))

get_category_by_id(caller, category_id) == step("get_category_by_id", caller, category_id, NoData, TRUE, reads(CategoryService_get_category_by_id(categories, category_id)))

create_category(caller, data) ==
    /\ next_id(database.categories) <= MaxId
    /\ step("create_category", caller, 0, data, valid_text(data, "name", FALSE), CategoryService_create_category(categories, tasks, subtasks, database, data, now))

update_category(caller, category_id, data) == step("update_category", caller, category_id, data, valid_text(data, "name", TRUE), CategoryService_update_category(categories, tasks, subtasks, database, category_id, data, now))

delete_category(caller, category_id) == step("delete_category", caller, category_id, NoData, TRUE, CategoryService_delete_category(categories, tasks, subtasks, database, category_id))

\* ---------------------------------------------------------- SubtaskService
\* get_subtasks_by_task has no view method.
get_subtasks_by_task(task_id) == step("get_subtasks_by_task", <<"service", NoUser>>, task_id, NoData, TRUE, reads(SubtaskService_get_subtasks_by_task(subtasks, tasks, task_id)))

create_subtask(caller, task_id, data) ==
    /\ next_id(database.subtasks) <= MaxId
    /\ step("create_subtask", caller, task_id, data, valid_text(data, "title", FALSE), SubtaskService_create_subtask(categories, tasks, subtasks, database, task_id, data, now))

update_subtask(caller, subtask_id, data) == step("update_subtask", caller, subtask_id, data, valid_text(data, "title", TRUE), SubtaskService_update_subtask(categories, tasks, subtasks, database, subtask_id, data))

toggle_subtask(caller, subtask_id) == step("toggle_subtask", caller, subtask_id, NoData, TRUE, SubtaskService_toggle_subtask(categories, tasks, subtasks, database, subtask_id, now))

delete_subtask(caller, subtask_id) == step("delete_subtask", caller, subtask_id, NoData, TRUE, SubtaskService_delete_subtask(categories, tasks, subtasks, database, subtask_id))

\* ------------------------------------------------------------- TaskService
get_all_tasks(caller, filters) == step("get_all_tasks", caller, 0, filters, TRUE, reads(TaskService_get_all_tasks(tasks, filters)))

get_task_by_id(caller, task_id) == step("get_task_by_id", caller, task_id, NoData, TRUE, reads(TaskService_get_task_by_id(tasks, task_id)))

\* get_tasks_by_date_range has no view method.
get_tasks_by_date_range(start_date, end_date) == step("get_tasks_by_date_range", <<"service", NoUser>>, 0, <<start_date, end_date>>, TRUE, reads(TaskService_get_tasks_by_date_range(tasks, start_date, end_date)))

get_tasks_for_month(caller, year, month) == \E ret \in TaskService_get_tasks_for_month(tasks, year, month) : step("get_tasks_for_month", caller, 0, <<year, month>>, TRUE, reads(ret))

get_task_statistics(caller) == step("get_task_statistics", caller, 0, NoData, TRUE, reads(TaskService_get_task_statistics(tasks)))

create_task(caller, data) ==
    /\ next_id(database.tasks) <= MaxId
    /\ step("create_task", caller, 0, data, valid_text(data, "title", FALSE) /\ valid_category(categories, data), TaskService_create_task(categories, tasks, subtasks, database, data, now))

update_task(caller, task_id, data) == step("update_task", caller, task_id, data, valid_text(data, "title", TRUE) /\ valid_category(categories, data), TaskService_update_task(categories, tasks, subtasks, database, task_id, data, now))

delete_task(caller, task_id) == step("delete_task", caller, task_id, NoData, TRUE, TaskService_delete_task(categories, tasks, subtasks, database, task_id))

\* mark_task_completed and mark_task_pending have no view method.
mark_task_completed(task_id) == step("mark_task_completed", <<"service", NoUser>>, task_id, NoData, TRUE, TaskService_mark_task_completed(categories, tasks, subtasks, database, task_id, now))

mark_task_pending(task_id) == step("mark_task_pending", <<"service", NoUser>>, task_id, NoData, TRUE, TaskService_mark_task_pending(categories, tasks, subtasks, database, task_id, now))

toggle_task_status(caller, task_id) == step("toggle_task_status", caller, task_id, NoData, TRUE, TaskService_toggle_task_status(categories, tasks, subtasks, database, task_id, now))

\* --------------------------------------------------------- TaskRepository
\* TaskRepository(user).delete(task), which no use case calls: the task is an
\* object the caller holds, built by Task(**data) or with a primary key.
delete(u, task) ==
    \E unsaved \in Model_delete_unsaved :
        LET out == TaskRepository_delete(tasks, subtasks, task, unsaved)
        IN  /\ tasks' = out.T
            /\ subtasks' = out.S
            /\ last' = Call("delete", "repository", u, IF task.pk = None THEN 0 ELSE task.pk[1], NoData, out.ret)
            /\ UNCHANGED <<now, categories, database, obj>>

\* ------------------------------------------------- a Task object in memory
\* `obj` is a Task object a caller holds: its primary key, None until it has
\* a row, and its attributes.
Object(pk, row) == [pk |-> pk, row |-> row]

\* The property is_overdue, read now.
is_overdue ==
    /\ obj # None
    /\ last' = Call("is_overdue", "object", NoUser, 0, NoData, Returns(Task_is_overdue(obj[1].row, now)))
    /\ UNCHANGED <<now, categories, tasks, subtasks, database, obj>>

\* mark_completed() of an object that has no row yet: the assignments, then
\* save(), an INSERT; auto_now_add and auto_now write the time to the object
\* before the statement runs.
mark_completed ==
    /\ obj # None
    /\ obj[1].pk = None
    /\ next_id(database.tasks) <= MaxId
    /\ LET row == [Task_mark_completed(obj[1].row, now) EXCEPT !.created_at = Some(now), !.updated_at = Some(now)]
           id == Model_insert(database.tasks, TaskNotNull, row)
       IN  /\ obj' = Some(Object(IF raised(id) THEN None ELSE Some(id.returns), row))
           /\ tasks' = IF raised(id) THEN tasks ELSE tasks @@ (id.returns :> row)
           /\ database' = [database EXCEPT !.tasks = sequence_after(database.ENGINE, database.tasks, id)]
           /\ last' = Call("mark_completed", "object", NoUser, 0, NoData, IF raised(id) THEN id ELSE Returns(None))
    /\ UNCHANGED <<now, categories, subtasks>>

\* --------------------------------------------------------------- inputs
CategoryPayloads == {[name |-> <<"w">>], [name |-> <<>>, color |-> "#ffffff"]}

SubtaskPayloads == {[title |-> <<"s">>], [title |-> <<"s">>, order |-> 1]}

SubtaskUpdates == {[is_completed |-> TRUE], [title |-> <<"t">>]}

TaskPayloads == {[title |-> <<"a">>], [title |-> <<"M", "i">>, priority |-> LOW, due_date |-> Some(1)], [title |-> <<"a">>, category |-> Some(1)]}

TaskUpdates == {[status |-> COMPLETED], [title |-> <<"b">>, category |-> None]}

\* The query parameters of a list; None when there is none.
NoFilters == <<>>

Filters == {NoFilters, [status |-> COMPLETED], [search |-> <<"I">>], [status |-> "", priority |-> HIGH, category |-> 1, search |-> <<"m">>], [category |-> 0], [category |-> "", search |-> <<>>]}

\* The objects given to TaskRepository.delete: Task(title='a'), and Task(id=id, title='a').
TaskObjects == {Object(pk, Model_init(TaskFields, TaskDefaults, [title |-> <<"a">>]).returns) : pk \in {None} \cup {Some(id) : id \in Ids}}

CalendarMonths == {<<2024, 2>>, <<2023, 12>>}

\* ------------------------------------------------------- specifications
\* Every use case, called as a service or requested through its view method.
Next ==
    \/ Tick
    \/ \E caller \in Callers : get_all_categories(caller)
    \/ \E caller \in Callers, id \in Ids : get_category_by_id(caller, id)
    \/ \E caller \in Callers, data \in CategoryPayloads : create_category(caller, data)
    \/ \E caller \in Callers, id \in Ids, data \in CategoryPayloads : update_category(caller, id, data)
    \/ \E caller \in Callers, id \in Ids : delete_category(caller, id)
    \/ \E id \in Ids : get_subtasks_by_task(id)
    \/ \E caller \in Callers, id \in Ids, data \in SubtaskPayloads : create_subtask(caller, id, data)
    \/ \E caller \in Callers, id \in Ids, data \in SubtaskUpdates : update_subtask(caller, id, data)
    \/ \E caller \in Callers, id \in Ids : toggle_subtask(caller, id)
    \/ \E caller \in Callers, id \in Ids : delete_subtask(caller, id)
    \/ \E caller \in Callers, filters \in Filters : get_all_tasks(caller, filters)
    \/ \E caller \in Callers, id \in Ids : get_task_by_id(caller, id)
    \/ \E start_date \in Times, end_date \in Times : get_tasks_by_date_range(start_date, end_date)
    \/ \E caller \in Callers, ym \in CalendarMonths : get_tasks_for_month(caller, ym[1], ym[2])
    \/ \E caller \in Callers : get_task_statistics(caller)
    \/ \E caller \in Callers, data \in TaskPayloads : create_task(caller, data)
    \/ \E caller \in Callers, id \in Ids, data \in TaskUpdates : update_task(caller, id, data)
    \/ \E caller \in Callers, id \in Ids : delete_task(caller, id)
    \/ \E id \in Ids : mark_task_completed(id)
    \/ \E id \in Ids : mark_task_pending(id)
    \/ \E caller \in Callers, id \in Ids : toggle_task_status(caller, id)
    \/ \E u \in Users \cup {NoUser}, task \in TaskObjects : delete(u, task)

Spec == Init /\ [][Next]_vars

\* A Task object as Task(**data) builds it, for any status, due date and
\* priority.
Instances == {Model_init(TaskFields, TaskDefaults, [status |-> s, due_date |-> d, priority |-> p]).returns : s \in Status, d \in {None} \cup {Some(t) : t \in Times}, p \in Priority}

InitOverdue ==
    /\ now = 1
    /\ categories = <<>>
    /\ tasks = <<>>
    /\ subtasks = <<>>
    /\ database \in {Database(engine) : engine \in Engines}
    /\ obj \in {Some(Object(None, row)) : row \in Instances}
    /\ last = Call("init", "object", NoUser, 0, NoData, Returns(None))

NextOverdue == Tick \/ is_overdue \/ mark_completed

SpecOverdue == InitOverdue /\ [][NextOverdue]_vars

\* ================================================================= claims

\* What the list of the tasks gives the caller of the step just taken.
C2_Listed == IF last.via = "view" THEN view(last.u, TRUE, categories, tasks, subtasks, database, reads(TaskService_get_all_tasks(tasks, NoFilters))).ret ELSE TaskService_get_all_tasks(tasks, NoFilters)

\* C2 (as claimed): immediately after a user creates a task from a valid
\* payload, get_all_tasks for that user contains it with status pending (the
\* other half of the claim, that no read made for another user contains it,
\* has no stored task to be about).
C2_CreatedTaskIsListed ==
    (last.op = "create_task" /\ valid_text(last.data, "title", FALSE) /\ valid_category(categories, last.data)) =>
        /\ ~raised(C2_Listed)
        /\ \E i \in C2_Listed.returns : tasks[i].title = last.data.title /\ tasks[i].status = PENDING

\* C11 (as claimed): three tasks are created one after the other, the first
\* of them is then completed, and get_task_statistics returns total 3,
\* pending 2, in_progress 0 and completed 1: from the state as it is, at the
\* time it is, each of the five calls of the service returns.
C11_StatisticsAfterThreeCreations ==
    LET c1 == TaskService_create_task(categories, tasks, subtasks, database, [title |-> <<"a">>], now)
        c2 == TaskService_create_task(c1.C, c1.T, c1.S, c1.D, [title |-> <<"b">>], now)
        c3 == TaskService_create_task(c2.C, c2.T, c2.S, c2.D, [title |-> <<"c">>], now)
        done == TaskService_mark_task_completed(c3.C, c3.T, c3.S, c3.D, c1.ret.returns[1], now)
    IN  tasks = <<>> =>
            /\ ~raised(c1.ret) /\ ~raised(c2.ret) /\ ~raised(c3.ret)
            /\ ~raised(done.ret) /\ done.ret.returns # None
            /\ TaskService_get_task_statistics(done.T) = Returns([total |-> 3, pending |-> 2, in_progress |-> 0, completed |-> 1])

\* Every read through an accessor with no identity is empty: the lists and
\* the mapping are empty, the lookups give None and the counts 0.
C14_ReadsAreEmpty ==
    /\ TaskRepository_get_all(tasks, NoUser) = Returns({})
    /\ CategoryRepository_get_all(categories, NoUser) = Returns({})
    /\ TaskRepository_get_pending(tasks, NoUser) = Returns({})
    /\ TaskRepository_get_completed(tasks, NoUser) = Returns({})
    /\ TaskRepository_search(tasks, NoUser, <<"a">>) = Returns({})
    /\ TaskRepository_count(tasks, NoUser) = Returns(0)
    /\ \A id \in Ids :
        /\ TaskRepository_get_by_id(tasks, NoUser, id) = Returns(None)
        /\ CategoryRepository_get_by_id(categories, NoUser, id) = Returns(None)
        /\ SubtaskRepository_get_by_id(subtasks, tasks, NoUser, id) = Returns(None)
        /\ SubtaskRepository_get_by_task(subtasks, tasks, NoUser, id) = Returns({})
        /\ TaskRepository_get_by_category(tasks, NoUser, id) = Returns({})
        /\ TaskRepository_count_by_category(tasks, NoUser, id) = Returns(0)
    /\ \A s \in Status : TaskRepository_get_by_status(tasks, NoUser, s) = Returns({}) /\ TaskRepository_count_by_status(tasks, NoUser, s) = Returns(0)
    /\ \A p \in Priority : TaskRepository_get_by_priority(tasks, NoUser, p) = Returns({})
    /\ \A start_date \in Times, end_date \in Times : TaskRepository_get_by_date_range(tasks, NoUser, start_date, end_date) = Returns({})
    /\ (last.via = "service" /\ last.op \in {"get_all_categories", "get_subtasks_by_task", "get_all_tasks", "get_tasks_by_date_range"}) => last.ret = Returns({})
    /\ (last.via = "service" /\ last.op \in {"get_category_by_id", "get_task_by_id"}) => last.ret = Returns(None)
    /\ (last.via = "service" /\ last.op = "get_tasks_for_month") => (~raised(last.ret) /\ DOMAIN last.ret.returns = {})
    /\ (last.via = "service" /\ last.op = "get_task_statistics") => last.ret = Returns([total |-> 0, pending |-> 0, in_progress |-> 0, completed |-> 0])

\* A use case called on a service, whose accessor has no identity, and a
\* delete through a repository built without user leave the three tables as
\* they were.
C14_Step == ((last'.via = "service" /\ last'.op \notin {"init", "Tick"}) \/ (last'.via = "repository" /\ last'.u = NoUser)) => store' = store

\* C14: an accessor with no acting identity fails closed: every read through
\* it is empty, and no create, update or delete through it adds, changes or
\* removes a stored category, task or subtask.
C14_NoIdentityFailsClosed == []C14_ReadsAreEmpty /\ [][C14_Step]_vars

\* A task has just been created through the accessor of a service, from a
\* payload that is valid: the call raised, and the tables hold nothing.
C14_Witness ==
    /\ last.op = "create_task" /\ last.via = "service" /\ last.u = NoUser
    /\ last.data = [title |-> <<"a">>]
    /\ last.ret = IntegrityError
    /\ store = <<<<>>, <<>>, <<>>>>

\* For the task a caller holds and every time, is_overdue is true exactly
\* when the due date is set, strictly earlier than that time, and the task
\* is not completed; and the property read in a step is its value now.
C18_OverdueIff ==
    /\ obj # None => \A t \in 0..(MaxTime + 1) :
        /\ Task_is_overdue(obj[1].row, t) <=> (obj[1].row.due_date # None /\ obj[1].row.due_date[1] < t /\ obj[1].row.status # COMPLETED)
        /\ obj[1].row.status = COMPLETED => ~Task_is_overdue(obj[1].row, t)
        /\ obj[1].row.due_date = None => ~Task_is_overdue(obj[1].row, t)
    /\ last.op = "is_overdue" => last.ret = Returns(obj[1].row.due_date # None /\ obj[1].row.due_date[1] < now /\ obj[1].row.status # COMPLETED)

\* Marking an overdue task completed makes is_overdue false.
C18_Step == (last'.op = "mark_completed" /\ Task_is_overdue(obj[1].row, now)) => ~Task_is_overdue(obj'[1].row, now')

\* C18: is_overdue is true exactly when due_date is set, due_date is
\* strictly earlier than now and status is not completed; a completed task
\* and a task with no due_date are never overdue, and marking an overdue
\* task completed makes is_overdue false.
C18_IsOverdue == []C18_OverdueIff /\ [][C18_Step]_vars

\* The property has just been read as true: the task is due before now and
\* is not completed, and the same task marked completed is not overdue.
C18_Witness ==
    /\ last.op = "is_overdue" /\ last.ret = Returns(TRUE)
    /\ obj[1].row.due_date # None /\ obj[1].row.due_date[1] < now /\ obj[1].row.status # COMPLETED
    /\ ~Task_is_overdue(Task_mark_completed(obj[1].row, now), now)

====
